---- MODULE Spec2Model ----
(***************************************************************************)
(* Model of the vault_aws_auth_backend_config_identity resource            *)
(* (vault/resource_aws_auth_backend_config_identity.go) and of the         *)
(* duplicate-alias scenario of the identity entity alias acceptance test.  *)
(*                                                                         *)
(* Go strings are sequences of one-character strings, so that trimming and *)
(* the regular expression are computed character by character.             *)
(***************************************************************************)
EXTENDS Naturals, Sequences, FiniteSets, TLC

VARIABLES
    d,        \* *schema.ResourceData of the identity config: id and fields
    remote,   \* the remote API's store: path -> payload (present paths only)
    op,       \* the operation that ran last
    input,    \* the declared configuration the last Create/Update was given
    ret,      \* what the last operation returned
    trace,    \* the remote calls and SetId calls of the last operation, in order
    repeated, \* the last operation was a successful Write that repeated, with the
              \* same declared input, the successful Write just before it
    pb,       \* path builder: the backend name under test
    pres,     \* path builder: the result of pathFor / backendFromPath on pb
    aliases,  \* identity entity aliases held by the remote API
    tracked,  \* identity entity aliases tracked in local state, per resource
    aret      \* what the last alias operation returned

vars == <<d, remote, op, input, ret, trace, repeated, pb, pres, aliases, tracked, aret>>

crudVars == <<d, remote, op, input, ret, trace, repeated>>
pathVars == <<pb, pres>>
aliasVars == <<aliases, tracked, aret>>

----------------------------------------------------------------------------
(* Bounds *)

\* most slashes a declared backend name carries on either side of the mount name
MaxSlashes == 1
\* longest backend name the path builder specification is given
MaxNameLen == 4

----------------------------------------------------------------------------
(* Strings *)

Slash == "/"
Newline == "\n"

\* "auth/"
AuthPrefix == <<"a", "u", "t", "h", "/">>
\* "/config/identity"
ConfigSuffix ==
    <<"/", "c", "o", "n", "f", "i", "g", "/", "i", "d", "e", "n", "t", "i", "t", "y">>

EmptyString == <<>>

SeqsUpTo(S, n) == UNION {[1..k -> S] : k \in 0..n}

Max(S) == CHOOSE x \in S : \A y \in S : y <= x

RECURSIVE TrimLeft(_, _)
TrimLeft(s, cutset) ==
    IF s # <<>> /\ Head(s) \in cutset THEN TrimLeft(Tail(s), cutset) ELSE s

RECURSIVE TrimRight(_, _)
TrimRight(s, cutset) ==
    IF s # <<>> /\ s[Len(s)] \in cutset
    THEN TrimRight(SubSeq(s, 1, Len(s) - 1), cutset)
    ELSE s

\* strings.Trim(s, cutset)
Trim(s, cutset) == TrimRight(TrimLeft(s, cutset), cutset)

----------------------------------------------------------------------------
(* Path builder *)

\* regexp "^auth/(.+)/config/identity$": the positions where the capture
\* group can end. "." matches any character but a newline, "^" and "$" match
\* only at the ends of the text.
MatchEnds(path) ==
    {i \in 1..Len(path) :
        /\ i > Len(AuthPrefix)
        /\ Len(path) - i = Len(ConfigSuffix)
        /\ \A k \in 1..Len(AuthPrefix) : path[k] = AuthPrefix[k]
        /\ \A k \in (Len(AuthPrefix) + 1)..i : path[k] # Newline
        /\ \A k \in 1..Len(ConfigSuffix) : path[i + k] = ConfigSuffix[k]}

\* regexp.MatchString
MatchString(path) == MatchEnds(path) # {}

\* regexp.FindStringSubmatch: the whole match and the (greedy) capture group,
\* or nothing
FindStringSubmatch(path) ==
    IF MatchEnds(path) = {}
    THEN <<>>
    ELSE <<path, SubSeq(path, Len(AuthPrefix) + 1, Max(MatchEnds(path)))>>

PathNoTrimRight(backend) ==
    AuthPrefix \o TrimLeft(backend, {Slash}) \o ConfigSuffix

awsAuthBackendConfigIdentityPath(backend) ==
    AuthPrefix \o Trim(backend, {Slash}) \o ConfigSuffix

awsAuthBackendConfigIdentityBackendFromPath(path) ==
    IF ~MatchString(path)
    THEN [backend |-> EmptyString, err |-> "no backend found"]
    ELSE LET res == FindStringSubmatch(path)
         IN  IF Len(res) # 2
             THEN [backend |-> EmptyString,
                   err |-> "unexpected number of matches for backend"]
             ELSE [backend |-> res[2], err |-> ""]

----------------------------------------------------------------------------
(* Field codec *)

\* one order of a set's elements, as schema.Set.List gives them
RECURSIVE SetToSeq(_)
SetToSeq(S) ==
    IF S = {} THEN <<>>
    ELSE LET x == CHOOSE y \in S : TRUE IN <<x>> \o SetToSeq(S \ {x})

Range(s) == {s[i] : i \in DOMAIN s}

\* d.GetOk + util.TerraformSetToStringArray: an unset (empty) set leaves the
\* []string nil, which the payload carries as null
MetadataToPayload(set) ==
    IF set = {}
    THEN [null |-> TRUE, items |-> <<>>]
    ELSE [null |-> FALSE, items |-> SetToSeq(set)]

\* d.Set of a set-typed field from a response value
MetadataFromPayload(v) == IF v.null THEN {} ELSE Range(v.items)

----------------------------------------------------------------------------
(* Errors, remote API client, call trace *)

NoError == [msg |-> "", path |-> EmptyString, cause |-> ""]

\* fmt.Errorf("<msg> %q: %s", path, err)
WrapError(msg, path, cause) == [msg |-> msg, path |-> path, cause |-> cause]

\* the error client.Logical().Read / Write return
ApiError == "api error"

WriteCall(path) == [ev |-> "write", path |-> path]
ReadCall(path) == [ev |-> "read", path |-> path]
SetIdCall(id) == [ev |-> "setid", path |-> id]

\* client.Logical().Write(path, data), when it succeeds
RemoteWrite(rem, path, data) ==
    [p \in DOMAIN rem \cup {path} |-> IF p = path THEN data ELSE rem[p]]

\* the store without path
RemoteRemove(rem, path) == [p \in DOMAIN rem \ {path} |-> rem[p]]

----------------------------------------------------------------------------
(* CRUD adapter: the handlers, as functions of the ResourceData rd, the      *)
(* remote store rem and the outcome of each remote call                     *)

ReadNoValidation(rd, rem, readFails) ==
    LET path == rd.id
        backend == awsAuthBackendConfigIdentityBackendFromPath(path).backend
    IN  IF readFails
        THEN [d |-> rd,
              err |-> WrapError("error reading AWS auth backend identity config",
                                path, ApiError),
              trace |-> <<ReadCall(path)>>]
        ELSE IF path \notin DOMAIN rem
        THEN [d |-> [rd EXCEPT !.id = EmptyString],
              err |-> NoError,
              trace |-> <<ReadCall(path), SetIdCall(EmptyString)>>]
        ELSE [d |-> [rd EXCEPT !.iam_alias = rem[path].iam_alias,
                               !.iam_metadata = MetadataFromPayload(rem[path].iam_metadata),
                               !.ec2_alias = rem[path].ec2_alias,
                               !.ec2_metadata = MetadataFromPayload(rem[path].ec2_metadata),
                               !.backend = backend],
              err |-> NoError,
              trace |-> <<ReadCall(path)>>]

ReadKeepsIdWhenNotFound(rd, rem, readFails) ==
    LET path == rd.id
        bp == awsAuthBackendConfigIdentityBackendFromPath(path)
    IN  IF bp.err # ""
        THEN [d |-> rd,
              err |-> WrapError("invalid path for AWS auth identity config",
                                path, bp.err),
              trace |-> <<>>]
        ELSE IF readFails
        THEN [d |-> rd,
              err |-> WrapError("error reading AWS auth backend identity config",
                                path, ApiError),
              trace |-> <<ReadCall(path)>>]
        ELSE IF path \notin DOMAIN rem
        THEN [d |-> rd, err |-> NoError, trace |-> <<ReadCall(path)>>]
        ELSE [d |-> [rd EXCEPT !.iam_alias = rem[path].iam_alias,
                               !.iam_metadata = MetadataFromPayload(rem[path].iam_metadata),
                               !.ec2_alias = rem[path].ec2_alias,
                               !.ec2_metadata = MetadataFromPayload(rem[path].ec2_metadata),
                               !.backend = bp.backend],
              err |-> NoError,
              trace |-> <<ReadCall(path)>>]

ReadSwappedAliases(rd, rem, readFails) ==
    LET path == rd.id
        bp == awsAuthBackendConfigIdentityBackendFromPath(path)
    IN  IF bp.err # ""
        THEN [d |-> rd,
              err |-> WrapError("invalid path for AWS auth identity config",
                                path, bp.err),
              trace |-> <<>>]
        ELSE IF readFails
        THEN [d |-> rd,
              err |-> WrapError("error reading AWS auth backend identity config",
                                path, ApiError),
              trace |-> <<ReadCall(path)>>]
        ELSE IF path \notin DOMAIN rem
        THEN [d |-> [rd EXCEPT !.id = EmptyString],
              err |-> NoError,
              trace |-> <<ReadCall(path), SetIdCall(EmptyString)>>]
        ELSE [d |-> [rd EXCEPT !.iam_alias = rem[path].ec2_alias,
                               !.iam_metadata = MetadataFromPayload(rem[path].iam_metadata),
                               !.ec2_alias = rem[path].ec2_alias,
                               !.ec2_metadata = MetadataFromPayload(rem[path].ec2_metadata),
                               !.backend = bp.backend],
              err |-> NoError,
              trace |-> <<ReadCall(path)>>]

awsAuthBackendConfigIdentityRead(rd, rem, readFails) ==
    LET path == rd.id
        bp == awsAuthBackendConfigIdentityBackendFromPath(path)
    IN  IF bp.err # ""
        THEN [d |-> rd,
              err |-> WrapError("invalid path for AWS auth identity config",
                                path, bp.err),
              trace |-> <<>>]
        ELSE IF readFails
        THEN [d |-> rd,
              err |-> WrapError("error reading AWS auth backend identity config",
                                path, ApiError),
              trace |-> <<ReadCall(path)>>]
        ELSE IF path \notin DOMAIN rem
        THEN [d |-> [rd EXCEPT !.id = EmptyString],
              err |-> NoError,
              trace |-> <<ReadCall(path), SetIdCall(EmptyString)>>]
        ELSE [d |-> [rd EXCEPT !.iam_alias = rem[path].iam_alias,
                               !.iam_metadata = MetadataFromPayload(rem[path].iam_metadata),
                               !.ec2_alias = rem[path].ec2_alias,
                               !.ec2_metadata = MetadataFromPayload(rem[path].ec2_metadata),
                               !.backend = bp.backend],
              err |-> NoError,
              trace |-> <<ReadCall(path)>>]

\* the payload Write builds from the declared fields
WritePayload(rd) ==
    [iam_alias |-> rd.iam_alias,
     iam_metadata |-> MetadataToPayload(rd.iam_metadata),
     ec2_alias |-> rd.ec2_alias,
     ec2_metadata |-> MetadataToPayload(rd.ec2_metadata)]

WriteSetIdFirst(rd, rem, writeFails, readFails) ==
    LET path == awsAuthBackendConfigIdentityPath(rd.backend)
        rd2 == [rd EXCEPT !.id = path]
    IN  IF writeFails
        THEN [d |-> rd2, remote |-> rem,
              err |-> WrapError("error configuring AWS auth identity config",
                                path, ApiError),
              trace |-> <<SetIdCall(path), WriteCall(path)>>]
        ELSE LET rem2 == RemoteWrite(rem, path, WritePayload(rd))
                 r == awsAuthBackendConfigIdentityRead(rd2, rem2, readFails)
             IN  [d |-> r.d, remote |-> rem2, err |-> r.err,
                  trace |-> <<SetIdCall(path), WriteCall(path)>> \o r.trace]

WriteRetriesOnce(rd, rem, writeFails, readFails) ==
    LET path == awsAuthBackendConfigIdentityPath(rd.backend)
    IN  IF writeFails
        THEN [d |-> rd, remote |-> rem,
              err |-> WrapError("error configuring AWS auth identity config",
                                path, ApiError),
              trace |-> <<WriteCall(path), WriteCall(path)>>]
        ELSE LET rem2 == RemoteWrite(rem, path, WritePayload(rd))
                 rd2 == [rd EXCEPT !.id = path]
                 r == awsAuthBackendConfigIdentityRead(rd2, rem2, readFails)
             IN  [d |-> r.d, remote |-> rem2, err |-> r.err,
                  trace |-> <<WriteCall(path), SetIdCall(path)>> \o r.trace]

WritePathFromId(rd, rem, writeFails, readFails) ==
    LET path == IF rd.id = EmptyString
                THEN awsAuthBackendConfigIdentityPath(rd.backend)
                ELSE awsAuthBackendConfigIdentityPath(rd.id)
    IN  IF writeFails
        THEN [d |-> rd, remote |-> rem,
              err |-> WrapError("error configuring AWS auth identity config",
                                path, ApiError),
              trace |-> <<WriteCall(path)>>]
        ELSE LET rem2 == RemoteWrite(rem, path, WritePayload(rd))
                 rd2 == [rd EXCEPT !.id = path]
                 r == awsAuthBackendConfigIdentityRead(rd2, rem2, readFails)
             IN  [d |-> r.d, remote |-> rem2, err |-> r.err,
                  trace |-> <<WriteCall(path), SetIdCall(path)>> \o r.trace]

awsAuthBackendConfigIdentityWrite(rd, rem, writeFails, readFails) ==
    LET path == awsAuthBackendConfigIdentityPath(rd.backend)
    IN  IF writeFails
        THEN [d |-> rd, remote |-> rem,
              err |-> WrapError("error configuring AWS auth identity config",
                                path, ApiError),
              trace |-> <<WriteCall(path)>>]
        ELSE LET rem2 == RemoteWrite(rem, path, WritePayload(rd))
                 rd2 == [rd EXCEPT !.id = path]
                 r == awsAuthBackendConfigIdentityRead(rd2, rem2, readFails)
             IN  [d |-> r.d, remote |-> rem2, err |-> r.err,
                  trace |-> <<WriteCall(path), SetIdCall(path)>> \o r.trace]

DeleteRemovesRemote(rd, rem) ==
    [d |-> rd, remote |-> RemoteRemove(rem, rd.id), err |-> NoError,
     trace |-> <<WriteCall(rd.id)>>]

awsAuthBackendConfigIdentityDelete(rd, rem) ==
    [d |-> rd, remote |-> rem, err |-> NoError, trace |-> <<>>]

awsAuthBackendConfigIdentityExists(rd, rem, readFails) ==
    LET path == rd.id
    IN  IF readFails
        THEN [found |-> TRUE,
              err |-> WrapError("error checking for existence of AWS auth backend identity config",
                                path, ApiError),
              trace |-> <<ReadCall(path)>>]
        ELSE [found |-> path \in DOMAIN rem, err |-> NoError,
              trace |-> <<ReadCall(path)>>]

----------------------------------------------------------------------------
(* The identity config resource under the framework's dispatch *)

\* mount names: none, a plain one, a nested one
MountNames == {EmptyString, <<"a">>, <<"a", "/", "b">>}

Slashes(n) == [k \in 1..n |-> Slash]

\* the backend names a configuration may declare: a mount name with up to
\* MaxSlashes slashes before it and after it
Backends ==
    {Slashes(i) \o m \o Slashes(j) : i \in 0..MaxSlashes, j \in 0..MaxSlashes,
                                      m \in MountNames}

\* declared field values: the schema defaults, and a configuration that sets
\* every field (values from the schema's allow-lists)
Configs ==
    {[iam_alias |-> "role_id", iam_metadata |-> {},
      ec2_alias |-> "role_id", ec2_metadata |-> {}],
     [iam_alias |-> "unique_id", iam_metadata |-> {"account_id"},
      ec2_alias |-> "instance_id", ec2_metadata |-> {"region", "ami_id"}]}

NoInput ==
    [backend |-> EmptyString, iam_alias |-> "", iam_metadata |-> {},
     ec2_alias |-> "", ec2_metadata |-> {}]

\* a ResourceData with no state
ZeroData ==
    [id |-> EmptyString, backend |-> EmptyString, iam_alias |-> "",
     iam_metadata |-> {}, ec2_alias |-> "", ec2_metadata |-> {}]

\* the ResourceData a Create/Update is handed: the prior id, the declared fields
Planned(id, b, c) ==
    [id |-> id, backend |-> b, iam_alias |-> c.iam_alias,
     iam_metadata |-> c.iam_metadata, ec2_alias |-> c.ec2_alias,
     ec2_metadata |-> c.ec2_metadata]

Declared(b, c) ==
    [backend |-> b, iam_alias |-> c.iam_alias, iam_metadata |-> c.iam_metadata,
     ec2_alias |-> c.ec2_alias, ec2_metadata |-> c.ec2_metadata]

\* the identifiers an import may pass through: well-formed paths, and backend
\* names given where a path is expected
ImportIds ==
    {awsAuthBackendConfigIdentityPath(m) : m \in MountNames}
        \cup (MountNames \ {EmptyString})

\* the config endpoints of mounted backends, where other clients may write
MountedPaths ==
    {p \in {awsAuthBackendConfigIdentityPath(b) : b \in Backends} : MatchString(p)}

EmptyRemote == [p \in {} |-> NoInput]

\* what the remote calls of a Write may do: the write fails (no read follows),
\* the read fails, or both succeed
WriteOutcomes ==
    {[writeFails |-> TRUE, readFails |-> FALSE],
     [writeFails |-> FALSE, readFails |-> TRUE],
     [writeFails |-> FALSE, readFails |-> FALSE]}

IsWrite(o) == o \in {"Create", "Update"}

Returned(err, found) == [err |-> err, found |-> found]

InitCrud ==
    /\ d = ZeroData
    /\ remote = EmptyRemote
    /\ op = "none"
    /\ input = NoInput
    /\ ret = Returned(NoError, FALSE)
    /\ trace = <<>>
    /\ repeated = FALSE

InitPathIdle ==
    /\ pb = EmptyString
    /\ pres = [kind |-> "none", path |-> EmptyString, backend |-> EmptyString, err |-> ""]

\* Create: awsAuthBackendConfigIdentityWrite on a resource with no state
Create ==
    /\ d.id = EmptyString
    /\ \E b \in Backends, c \in Configs, o \in WriteOutcomes :
        \E r \in {awsAuthBackendConfigIdentityWrite(Planned(d.id, b, c), remote,
                                                   o.writeFails, o.readFails)} :
            /\ d' = r.d
            /\ remote' = r.remote
            /\ op' = "Create"
            /\ input' = Declared(b, c)
            /\ ret' = Returned(r.err, FALSE)
            /\ trace' = r.trace
            /\ repeated' = (/\ r.err = NoError
                            /\ IsWrite(op)
                            /\ ret.err = NoError
                            /\ input = Declared(b, c))
    /\ UNCHANGED <<pathVars, aliasVars>>

\* Update: awsAuthBackendConfigIdentityWrite on a tracked resource. "backend"
\* is ForceNew and its StateFunc trims it: a declared backend that differs from
\* the state's after trimming is a replacement (Delete, Create), not an Update
Update ==
    /\ d.id # EmptyString
    /\ \E b \in {x \in Backends : Trim(x, {Slash}) = Trim(d.backend, {Slash})},
          c \in Configs, o \in WriteOutcomes :
        \E r \in {awsAuthBackendConfigIdentityWrite(Planned(d.id, b, c), remote,
                                                   o.writeFails, o.readFails)} :
            /\ d' = r.d
            /\ remote' = r.remote
            /\ op' = "Update"
            /\ input' = Declared(b, c)
            /\ ret' = Returned(r.err, FALSE)
            /\ trace' = r.trace
            /\ repeated' = (/\ r.err = NoError
                            /\ IsWrite(op)
                            /\ ret.err = NoError
                            /\ input = Declared(b, c))
    /\ UNCHANGED <<pathVars, aliasVars>>

Read ==
    /\ \E readFails \in BOOLEAN :
        \E r \in {awsAuthBackendConfigIdentityRead(d, remote, readFails)} :
            /\ d' = r.d
            /\ ret' = Returned(r.err, FALSE)
            /\ trace' = r.trace
    /\ op' = "Read"
    /\ input' = NoInput
    /\ repeated' = FALSE
    /\ UNCHANGED <<remote, pathVars, aliasVars>>

\* Delete: the handler; when it returns nil the framework drops the resource
\* from state
Delete ==
    /\ \E r \in {awsAuthBackendConfigIdentityDelete(d, remote)} :
           /\ d' = IF r.err = NoError THEN [r.d EXCEPT !.id = EmptyString] ELSE r.d
           /\ remote' = r.remote
           /\ ret' = Returned(r.err, FALSE)
           /\ trace' = r.trace
    /\ op' = "Delete"
    /\ input' = NoInput
    /\ repeated' = FALSE
    /\ UNCHANGED <<pathVars, aliasVars>>

\* Exists: the legacy existence check; the resource does not register it, a
\* caller that holds the ResourceData may still run it
Exists ==
    /\ \E readFails \in BOOLEAN :
        \E r \in {awsAuthBackendConfigIdentityExists(d, remote, readFails)} :
            /\ ret' = Returned(r.err, r.found)
            /\ trace' = r.trace
    /\ op' = "Exists"
    /\ input' = NoInput
    /\ repeated' = FALSE
    /\ UNCHANGED <<d, remote, pathVars, aliasVars>>

\* schema.ImportStatePassthrough: the given identifier becomes the id
Import ==
    /\ d.id = EmptyString
    /\ \E id \in ImportIds : d' = [ZeroData EXCEPT !.id = id]
    /\ op' = "Import"
    /\ input' = NoInput
    /\ repeated' = FALSE
    /\ ret' = Returned(NoError, FALSE)
    /\ trace' = <<>>
    /\ UNCHANGED <<remote, pathVars, aliasVars>>

\* the remote configuration is removed by someone else. A handler's calls are
\* synchronous and run to the handler's return, so changes made by others
\* fall between two operations
OutOfBandRemove ==
    /\ \E p \in DOMAIN remote : remote' = RemoteRemove(remote, p)
    /\ op' = "OutOfBand"
    /\ input' = NoInput
    /\ repeated' = FALSE
    /\ ret' = Returned(NoError, FALSE)
    /\ trace' = <<>>
    /\ UNCHANGED <<d, pathVars, aliasVars>>

\* the remote configuration is written by someone else
OutOfBandWrite ==
    /\ \E p \in MountedPaths, c \in Configs :
        remote' = RemoteWrite(remote, p, WritePayload(Planned(EmptyString, EmptyString, c)))
    /\ op' = "OutOfBand"
    /\ input' = NoInput
    /\ repeated' = FALSE
    /\ ret' = Returned(NoError, FALSE)
    /\ trace' = <<>>
    /\ UNCHANGED <<d, pathVars, aliasVars>>

----------------------------------------------------------------------------
(* Identity entity alias: the create conflict of TestAccIdentityEntityAlias *)

AliasNames == {"my-entity-A", "my-entity-B"}
MountAccessors == {"githubA", "githubB"}
EntityIds == {"A", "B"}
AliasResources == {"entity-alias", "entity-alias-dupe"}

NoAlias == [name |-> "", mount_accessor |-> "", canonical_id |-> ""]

AlreadyExists == "IdentityEntityAlias already exists and may be imported"

AliasKey(name, mount) == <<name, mount>>

AliasReturned(o, r, name, mount, err) ==
    [op |-> o, resource |-> r, name |-> name, mount_accessor |-> mount, err |-> err]

InitAlias ==
    /\ aliases = [k \in {} |-> ""]
    /\ tracked = [r \in AliasResources |-> NoAlias]
    /\ aret = AliasReturned("none", "", "", "", "")

AliasCreateOverwrites ==
    /\ \E r \in AliasResources, name \in AliasNames, mount \in MountAccessors,
          entity \in EntityIds :
        /\ tracked[r] = NoAlias
        /\ aliases' = [k \in DOMAIN aliases \cup {AliasKey(name, mount)} |->
                          IF k = AliasKey(name, mount) THEN entity ELSE aliases[k]]
        /\ tracked' = [tracked EXCEPT ![r] =
                          [name |-> name, mount_accessor |-> mount,
                           canonical_id |-> entity]]
        /\ aret' = AliasReturned("create", r, name, mount, "")
    /\ UNCHANGED <<crudVars, pathVars>>

\* create of a vault_identity_entity_alias resource that has no state
AliasCreate ==
    /\ \E r \in AliasResources, name \in AliasNames, mount \in MountAccessors,
          entity \in EntityIds :
        /\ tracked[r] = NoAlias
        /\ IF AliasKey(name, mount) \in DOMAIN aliases
           THEN /\ aret' = AliasReturned("create", r, name, mount, AlreadyExists)
                /\ UNCHANGED <<aliases, tracked>>
           ELSE /\ aliases' = [k \in DOMAIN aliases \cup {AliasKey(name, mount)} |->
                                  IF k = AliasKey(name, mount) THEN entity ELSE aliases[k]]
                /\ tracked' = [tracked EXCEPT ![r] =
                                  [name |-> name, mount_accessor |-> mount,
                                   canonical_id |-> entity]]
                /\ aret' = AliasReturned("create", r, name, mount, "")
    /\ UNCHANGED <<crudVars, pathVars>>

\* destroy of a tracked alias: the remote record goes, and the state entry
AliasDelete ==
    /\ \E r \in AliasResources :
        /\ tracked[r] # NoAlias
        /\ LET k == AliasKey(tracked[r].name, tracked[r].mount_accessor)
           IN  aliases' = [j \in DOMAIN aliases \ {k} |-> aliases[j]]
        /\ tracked' = [tracked EXCEPT ![r] = NoAlias]
        /\ aret' = AliasReturned("delete", r, tracked[r].name,
                                 tracked[r].mount_accessor, "")
    /\ UNCHANGED <<crudVars, pathVars>>

\* an alias created outside the provider: remote, and in no resource's state
AliasCreatedElsewhere ==
    /\ \E name \in AliasNames, mount \in MountAccessors, entity \in EntityIds :
        /\ AliasKey(name, mount) \notin DOMAIN aliases
        /\ aliases' = [k \in DOMAIN aliases \cup {AliasKey(name, mount)} |->
                          IF k = AliasKey(name, mount) THEN entity ELSE aliases[k]]
        /\ aret' = AliasReturned("elsewhere", "", name, mount, "")
    /\ UNCHANGED <<tracked, crudVars, pathVars>>

----------------------------------------------------------------------------
(* Path builder, applied to bounded backend names *)

NameAlphabet == {Slash, "a", Newline}

\* names that hold the pattern's own literals
LiteralNames ==
    {<<"a">> \o ConfigSuffix, ConfigSuffix, AuthPrefix \o <<"a">>,
     <<"a">> \o ConfigSuffix \o <<"/">>}

Names == SeqsUpTo(NameAlphabet, MaxNameLen) \cup LiteralNames

InitPath ==
    /\ pb \in Names
    /\ pres = [kind |-> "none", path |-> EmptyString, backend |-> EmptyString, err |-> ""]

\* backendFromPath(pathFor(pb))
PathRoundTrip ==
    /\ pres.kind = "none"
    /\ LET path == awsAuthBackendConfigIdentityPath(pb)
           r == awsAuthBackendConfigIdentityBackendFromPath(path)
       IN  pres' = [kind |-> "roundtrip", path |-> path, backend |-> r.backend,
                    err |-> r.err]
    /\ UNCHANGED <<pb, crudVars, aliasVars>>

\* backendFromPath(pb): pb as a stored identifier
PathParse ==
    /\ pres.kind = "none"
    /\ LET r == awsAuthBackendConfigIdentityBackendFromPath(pb)
       IN  pres' = [kind |-> "parse", path |-> pb, backend |-> r.backend,
                    err |-> r.err]
    /\ UNCHANGED <<pb, crudVars, aliasVars>>

----------------------------------------------------------------------------
(* Specifications *)

Init == InitCrud /\ InitPathIdle /\ InitAlias

Next ==
    \/ Create
    \/ Update
    \/ Read
    \/ Delete
    \/ Exists
    \/ Import
    \/ OutOfBandRemove
    \/ OutOfBandWrite

Spec == Init /\ [][Next]_vars

InitPathSpec == InitCrud /\ InitPath /\ InitAlias

NextPath == PathRoundTrip \/ PathParse

SpecPath == InitPathSpec /\ [][NextPath]_vars

NextAlias == AliasCreate \/ AliasDelete \/ AliasCreatedElsewhere

SpecAlias == Init /\ [][NextAlias]_vars

----------------------------------------------------------------------------
(* Properties *)

ConfiguringError == "error configuring AWS auth identity config"
InvalidPathError == "invalid path for AWS auth identity config"

HasNoNewline(s) == \A k \in DOMAIN s : s[k] # Newline

ReadEvents(t) == {k \in DOMAIN t : t[k].ev = "read"}

\* the local fields hold the declared values, the backend trimmed
FieldsAsDeclared(rd, in) ==
    /\ rd.iam_alias = in.iam_alias
    /\ rd.iam_metadata = in.iam_metadata
    /\ rd.ec2_alias = in.ec2_alias
    /\ rd.ec2_metadata = in.ec2_metadata
    /\ rd.backend = Trim(in.backend, {Slash})

\* C1 as stated: for every backend name b, backendFromPath(pathFor(b)) returns
\* no error and yields b with all leading and trailing "/" removed.
C1_RoundTripAnyName ==
    pres.kind = "roundtrip" =>
        /\ pres.err = ""
        /\ pres.backend = Trim(pb, {Slash})

\* C1 amended: for every backend name b that is not empty once its leading and
\* trailing "/" are removed and that holds no newline, backendFromPath(pathFor(b))
\* returns no error and yields b with all leading and trailing "/" removed.
C1_RoundTripNonEmptyName ==
    (/\ pres.kind = "roundtrip"
     /\ Trim(pb, {Slash}) # EmptyString
     /\ HasNoNewline(pb)) =>
        /\ pres.err = ""
        /\ pres.backend = Trim(pb, {Slash})

\* a name with slashes on both sides came back without them
C1_Witness ==
    /\ pres.kind = "roundtrip"
    /\ Len(pb) >= 3
    /\ pb[1] = Slash
    /\ pb[Len(pb)] = Slash
    /\ pres.err = ""
    /\ pres.backend # EmptyString
    /\ pres.backend = Trim(pb, {Slash})

\* C2: a Read of a resource whose well-formed identifier names a path the
\* remote no longer holds, when the remote read itself does not fail, clears
\* the identifier, returns no error and leaves every other field unchanged.
C2_DriftClearsId ==
    [][(/\ op' = "Read"
        /\ MatchString(d.id)
        /\ d.id \notin DOMAIN remote
        /\ ret'.err.cause # ApiError) =>
            /\ ret'.err = NoError
            /\ d' = [d EXCEPT !.id = EmptyString]]_vars

\* a Read cleared the identifier of a resource an earlier Write had filled
C2_Witness ==
    /\ op = "Read"
    /\ ret.err = NoError
    /\ d.id = EmptyString
    /\ d.backend # EmptyString
    /\ d.iam_alias # ""
    /\ Len(trace) = 2
    /\ trace[2] = SetIdCall(EmptyString)

\* C3: in a Write, the identifier is set and the remote is read only after the
\* remote write has succeeded; a Write whose remote write succeeds has written
\* the declared payload to "auth/" + trim(backend, "/") + "/config/identity",
\* then set the identifier to exactly that path, then run Read on it.
C3_WriteThenSetIdThenRead ==
    IsWrite(op) =>
        LET path == AuthPrefix \o Trim(input.backend, {Slash}) \o ConfigSuffix
        IN  /\ Len(trace) >= 1
            /\ trace[1] = WriteCall(path)
            /\ ret.err.msg = ConfiguringError => trace = <<WriteCall(path)>>
            /\ ret.err.msg # ConfiguringError =>
                /\ Len(trace) >= 2
                /\ trace[2] = SetIdCall(path)
                /\ \A k \in ReadEvents(trace) : k = 3 /\ trace[k] = ReadCall(path)
                /\ path \in DOMAIN remote
                /\ remote[path] = WritePayload(Planned(EmptyString, input.backend, input))
                /\ d.id = path
                /\ ret.err = NoError => ReadEvents(trace) = {3}

\* a Write went through: remote write, SetId, remote read
C3_Witness ==
    /\ IsWrite(op)
    /\ ret.err = NoError
    /\ Len(trace) = 3
    /\ trace[1].ev = "write"
    /\ trace[2].ev = "setid"
    /\ trace[3].ev = "read"
    /\ d.id = trace[1].path

\* C4: a Write whose remote write fails returns an error that carries the path
\* and the underlying cause, leaves the identifier as it was, and has issued
\* the one remote write and nothing else (no read, no second write).
C4_WriteFailureLeavesId ==
    [][(IsWrite(op') /\ ret'.err.msg = ConfiguringError) =>
            /\ ret'.err.path = AuthPrefix \o Trim(input'.backend, {Slash}) \o ConfigSuffix
            /\ ret'.err.cause = ApiError
            /\ d'.id = d.id
            /\ trace' = <<WriteCall(ret'.err.path)>>]_vars

\* an Update of a tracked resource failed at the remote write
C4_Witness ==
    /\ op = "Update"
    /\ ret.err.msg = ConfiguringError
    /\ ret.err.cause = ApiError
    /\ d.id # EmptyString
    /\ Len(trace) = 1

\* C5: Delete returns success, issues no remote call and leaves the remote
\* store as it was, whether or not the identifier is well-formed and whether
\* or not the remote holds the configuration.
C5_DeleteIsLocalNoOp ==
    [][op' = "Delete" =>
            /\ ret'.err = NoError
            /\ trace' = <<>>
            /\ remote' = remote]_vars

\* a Delete returned and the remote still holds a written configuration
C5_Witness ==
    /\ op = "Delete"
    /\ ret.err = NoError
    /\ DOMAIN remote # {}

\* C6: creating an alias whose (name, mount_accessor) pair the remote already
\* holds, from a resource that tracks nothing, fails with the "already exists
\* ... may be imported" error and changes neither the remote aliases nor any
\* resource's state.
C6_DuplicateAliasFails ==
    [][(/\ aret'.op = "create"
        /\ AliasKey(aret'.name, aret'.mount_accessor) \in DOMAIN aliases) =>
            /\ aret'.err = AlreadyExists
            /\ aliases' = aliases
            /\ tracked' = tracked]_vars

\* entity-alias-dupe was refused while entity-alias tracks the same pair
C6_Witness ==
    /\ aret.op = "create"
    /\ aret.resource = "entity-alias-dupe"
    /\ aret.err = AlreadyExists
    /\ tracked["entity-alias-dupe"] = NoAlias
    /\ tracked["entity-alias"].name = aret.name
    /\ tracked["entity-alias"].mount_accessor = aret.mount_accessor
    /\ AliasKey(aret.name, aret.mount_accessor) \in DOMAIN aliases

\* C7: a successful Write that follows a successful Write with the same
\* declared input leaves the remote store and the identifier as the first
\* left them.
C7_WriteIdempotent ==
    [][(/\ IsWrite(op)
        /\ ret.err = NoError
        /\ IsWrite(op')
        /\ ret'.err = NoError
        /\ input' = input) =>
            /\ remote' = remote
            /\ d'.id = d.id]_vars

\* a second successful Write with the same declared input has run
C7_Witness ==
    /\ repeated
    /\ op = "Update"
    /\ ret.err = NoError
    /\ d.id \in DOMAIN remote

\* C8: after a successful Write (remote write, then Read), and after a Read
\* that follows it directly, the local iam_alias, iam_metadata, ec2_alias and
\* ec2_metadata equal the declared values and the local backend equals the
\* declared backend with its leading and trailing slashes removed.
C8_WriteReadRoundTrip ==
    [][/\ (IsWrite(op') /\ ret'.err = NoError) => FieldsAsDeclared(d', input')
       /\ (/\ IsWrite(op)
           /\ ret.err = NoError
           /\ op' = "Read"
           /\ ret'.err = NoError) =>
               /\ FieldsAsDeclared(d', input)
               /\ d'.id = d.id]_vars

\* a Write of non-default fields under a backend with slashes was read back
C8_Witness ==
    /\ IsWrite(op)
    /\ ret.err = NoError
    /\ input.backend # d.backend
    /\ d.backend # EmptyString
    /\ d.iam_alias = "unique_id"
    /\ d.iam_metadata = {"account_id"}
    /\ d.ec2_alias = "instance_id"
    /\ d.ec2_metadata = {"region", "ami_id"}

\* C9 as stated: whenever a Write returns an error, the remote store and the
\* identifier are what they were before the call.
C9_WriteAllOrNothing ==
    [][(IsWrite(op') /\ ret'.err # NoError) =>
            /\ remote' = remote
            /\ d'.id = d.id]_vars

\* C10 as stated: a Read of an identifier that does not match the pattern
\* fails before any remote call and leaves the identifier and the fields
\* unchanged, and no operation, Exists included, issues a remote read against
\* such an identifier.
C10_NoReadOfMalformedId ==
    [][/\ (op' = "Read" /\ ~MatchString(d.id)) =>
            /\ ret'.err = WrapError(InvalidPathError, d.id, "no backend found")
            /\ trace' = <<>>
            /\ d' = d
       /\ \A k \in ReadEvents(trace') : MatchString(trace'[k].path)]_vars

\* C10 amended: a Read of an identifier that does not match the pattern fails
\* before any remote call and leaves the identifier and the fields unchanged,
\* and no operation other than Exists issues a remote read against such an
\* identifier; Exists reads the stored identifier without validating it.
C10_NoReadOfMalformedIdButExists ==
    [][/\ (op' = "Read" /\ ~MatchString(d.id)) =>
            /\ ret'.err = WrapError(InvalidPathError, d.id, "no backend found")
            /\ trace' = <<>>
            /\ d' = d
       /\ op' # "Exists" => \A k \in ReadEvents(trace') : MatchString(trace'[k].path)
       /\ op' = "Exists" => trace' = <<ReadCall(d.id)>>]_vars

\* a Read refused an imported identifier that is no config path
C10_Witness ==
    /\ op = "Read"
    /\ ret.err.msg = InvalidPathError
    /\ ret.err.path = d.id
    /\ d.id # EmptyString
    /\ d.backend = EmptyString
    /\ trace = <<>>

====
